---- MODULE Spec2Model ----
(***************************************************************************)
(* Model of the product search engine: the crawler (TP1/crawler.py), the   *)
(* index builder (TP2/index_builder.py) and the search script              *)
(* (TP3/browser.py).                                                       *)
(*                                                                         *)
(* Python values are modelled as follows.                                  *)
(*   dict        a function; its keys are its DOMAIN                       *)
(*   list        a sequence (wrapped as [items |-> s] in a feature index)    *)
(*   str (text)  the sequence of its whitespace-separated raw words        *)
(*   a call      a record [exc |-> "none", value |-> v] when it returns v  *)
(*               and [exc |-> <exception name>] when it raises             *)
(*   float       an exact rational [num, den] (means) or an integer number *)
(*               of tenths (scores)                                        *)
(***************************************************************************)
EXTENDS Integers, Sequences, FiniteSets, TLC

VARIABLES
    documents,           \* the product collection (products.jsonl)
    pc,                  \* position of the running script
    title_index,         \* title_index.json
    description_index,   \* description_index.json
    reviews_index,       \* reviews_index.json
    brand_index,         \* brand_index.json
    origin_index,        \* origin_index.json
    synonyms,            \* origin_synonyms.json
    documents_metadata,  \* browser.py global built at import
    call,                \* the last call made: its name and arguments
    ret,                 \* its outcome ([exc, value]) and recorded locals
    max_pages,           \* crawl_website argument
    delay,               \* crawl_website argument, in seconds
    robot_parser,        \* the URLs robots.txt disallows
    queue,               \* crawl_website local: the heap, url -> copies held
    visited,             \* crawl_website local
    crawl_results,       \* crawl_website local: results
    waited,              \* seconds slept since the last get_html call
    gap                  \* get_html calls made, and the seconds slept between
                         \* the last two of them

\* the state of the crawler (TP1/crawler.py)
crawl_vars == <<max_pages, delay, robot_parser, queue, visited, crawl_results,
                waited, gap>>

vars == <<documents, pc, title_index, description_index, reviews_index,
          brand_index, origin_index, synonyms, documents_metadata, call, ret,
          crawl_vars>>

\* the crawler is not running
CrawlerIdle ==
    /\ max_pages = 0
    /\ delay = 0
    /\ robot_parser = {}
    /\ queue = [u \in {} |-> 0]
    /\ visited = {}
    /\ crawl_results = <<>>
    /\ waited = 0
    /\ gap = [calls |-> "none"]

(***************************************************************************)
(* Bounds and vocabulary                                                   *)
(***************************************************************************)
\* longest text field (title, description, feature value), in raw words
MaxTextLen == 3
\* most reviews of one document
MaxReviews == 3

\* document URLs, in collection order
UrlList == <<"/1", "/2">>

\* raw words of document texts: mixed case with punctuation, plain, stopword
DocWords == {"Red,", "hat", "the"}

\* ratings a review may carry
Ratings == {4, 5}

(***************************************************************************)
(* Generic helpers                                                         *)
(***************************************************************************)
EmptyDict == [k \in {} |-> 0]

\* dict.get(k, default)
Get(d, k, default) == IF k \in DOMAIN d THEN d[k] ELSE default

\* d[k] = v
Put(d, k, v) == [x \in DOMAIN d \cup {k} |-> IF x = k THEN v ELSE d[x]]

\* all sequences over S of length at most n
SeqsUpTo(S, n) == UNION {[1..k -> S] : k \in 0..n}

Range(s) == {s[i] : i \in DOMAIN s}

RECURSIVE SumSeq(_)
SumSeq(s) == IF s = <<>> THEN 0 ELSE s[1] + SumSeq(Tail(s))

RECURSIVE GCD(_, _)
GCD(a, b) == IF b = 0 THEN a ELSE GCD(b, a % b)

\* the exact value n/d of a true division, in lowest terms
Rat(n, d) == LET g == GCD(n, d) IN [num |-> n \div g, den |-> d \div g]

(***************************************************************************)
(* TP2: tokenization                                                       *)
(***************************************************************************)
\* text.lower() then removal of string.punctuation, per raw word
Clean(w) ==
    CASE w = "Red," -> "red"
      [] w = "Hat!" -> "hat"
      [] w = "-" -> ""
      [] OTHER -> w

\* text.split() after cleaning: words emptied by the cleaning vanish
SplitClean(text) ==
    LET cleaned == [i \in DOMAIN text |-> Clean(text[i])]
        NonEmpty(w) == w # ""
    IN SelectSeq(cleaned, NonEmpty)

\* the stopword set of index_builder.py, restricted to the vocabulary
STOPWORDS_TP2 == {"the", "a", "of"}

tokenize_TP2(text) ==
    LET Keep(t) == t \notin STOPWORDS_TP2
    IN SelectSeq(SplitClean(text), Keep)

(***************************************************************************)
(* TP2: build_inverted_index                                               *)
(***************************************************************************)
\* variant: positions_map[t] = [idx] in place of append, the last index only
PositionsOf_overwrite(split_tokens, t) ==
    LET F[i \in 0..Len(split_tokens)] ==
            IF i = 0 THEN <<>>
            ELSE IF split_tokens[i] = t THEN <<i - 1>>
                 ELSE F[i - 1]
    IN F[Len(split_tokens)]

\* positions_map[t] after the enumerate loop: the 0-based indexes of t
PositionsOf(split_tokens, t) ==
    LET F[i \in 0..Len(split_tokens)] ==
            IF i = 0 THEN <<>>
            ELSE IF split_tokens[i] = t THEN Append(F[i - 1], i - 1)
                 ELSE F[i - 1]
    IN F[Len(split_tokens)]

\* index after the loop body has run for one document
IndexDocument(index, doc, field) ==
    LET url == doc["url"]
        text == Get(doc, field, <<>>)
        split_tokens == tokenize_TP2(text)
        tokens == Range(split_tokens)
    IN [t \in DOMAIN index \cup tokens |->
            IF t \in tokens
            THEN Put(Get(index, t, EmptyDict), url, PositionsOf(split_tokens, t))
            ELSE index[t]]

RECURSIVE IndexDocuments(_, _, _)
IndexDocuments(index, docs, field) ==
    IF docs = <<>> THEN index
    ELSE IndexDocuments(IndexDocument(index, Head(docs), field), Tail(docs), field)

build_inverted_index(docs, field) == IndexDocuments(EmptyDict, docs, field)

(***************************************************************************)
(* TP2: build_reviews_index                                                *)
(***************************************************************************)
\* [r["rating"] for r in reviews if "rating" in r]
RECURSIVE RatingsPresent(_)
RatingsPresent(reviews) ==
    IF reviews = <<>> THEN <<>>
    ELSE IF "rating" \in DOMAIN Head(reviews)
         THEN <<Head(reviews)["rating"]>> \o RatingsPresent(Tail(reviews))
         ELSE RatingsPresent(Tail(reviews))

\* statistics.mean: raises StatisticsError on no data
mean(data) ==
    IF data = <<>> THEN [exc |-> "StatisticsError"]
    ELSE [exc |-> "none", value |-> Rat(SumSeq(data), Len(data))]

ZeroReviews == [total_reviews |-> 0, mean_mark |-> Rat(0, 1), last_rating |-> 0]

\* variant: the count and the last rating taken from the review list
\* instead of the ratings present
ReviewRecord_allReviews(doc) ==
    LET reviews == Get(doc, "product_reviews", <<>>)
        ratings == RatingsPresent(reviews)
        m == mean(ratings)
    IN IF reviews = <<>> THEN [exc |-> "none", value |-> ZeroReviews]
       ELSE IF m.exc # "none" THEN [exc |-> m.exc]
       ELSE [exc |-> "none",
             value |-> [total_reviews |-> Len(reviews),
                        mean_mark |-> m.value,
                        last_rating |-> ratings[Len(ratings)]]]

\* the loop body for one document: the record stored, or the exception
ReviewRecord(doc) ==
    LET reviews == Get(doc, "product_reviews", <<>>)
        ratings == RatingsPresent(reviews)
        m == mean(ratings)
    IN IF reviews = <<>> THEN [exc |-> "none", value |-> ZeroReviews]
       ELSE IF m.exc # "none" THEN [exc |-> m.exc]
       ELSE [exc |-> "none",
             value |-> [total_reviews |-> Len(ratings),
                        mean_mark |-> m.value,
                        last_rating |-> ratings[Len(ratings)]]]

RECURSIVE ReviewsLoop(_, _)
ReviewsLoop(index, docs) ==
    IF docs = <<>> THEN [exc |-> "none", value |-> index]
    ELSE LET r == ReviewRecord(Head(docs))
         IN IF r.exc # "none" THEN [exc |-> r.exc]
            ELSE ReviewsLoop(Put(index, Head(docs)["url"], r.value), Tail(docs))

build_reviews_index(docs) == ReviewsLoop(EmptyDict, docs)

(***************************************************************************)
(* TP2: build_feature_indexes                                              *)
(***************************************************************************)
AllFeatures(docs) ==
    UNION {DOMAIN Get(docs[i], "product_features", EmptyDict) : i \in DOMAIN docs}

\* A list stored as a value of a feature index is the record [items |-> s],
\* which tells it from a dict: a dict's keys are strings that are not "items".
EmptyList == [items |-> <<>>]
ListAppend(l, x) == [items |-> Append(l.items, x)]
IsList(v) == "items" \in DOMAIN v

\* feature_indexes[token].append(url) for each token, in order
\* (feature_indexes is a defaultdict(list))
RECURSIVE AppendUrl(_, _, _)
AppendUrl(index, tokens, url) ==
    IF tokens = <<>> THEN index
    ELSE AppendUrl(Put(index, Head(tokens),
                       ListAppend(Get(index, Head(tokens), EmptyList), url)),
                   Tail(tokens), url)

RECURSIVE FeatureLoop(_, _, _)
FeatureLoop(index, docs, feature) ==
    IF docs = <<>> THEN index
    ELSE LET doc == Head(docs)
             features == Get(doc, "product_features", EmptyDict)
             next == IF feature \in DOMAIN features
                     THEN AppendUrl(index, tokenize_TP2(features[feature]),
                                    Get(doc, "url", ""))
                     ELSE index
         IN FeatureLoop(next, Tail(docs), feature)

build_feature_indexes(docs) ==
    [feature \in AllFeatures(docs) |-> FeatureLoop(EmptyDict, docs, feature)]

\* the file a feature index is saved to, named by the variable that models it
FeatureFile(feature) == IF feature = "made in" THEN "origin" ELSE feature

(***************************************************************************)
(* TP2: main, one action per call                                          *)
(***************************************************************************)
BuildInvertedIndex(field) ==
    /\ pc = "build_" \o field
    /\ LET index == build_inverted_index(documents, field)
       IN /\ title_index' = IF field = "title" THEN index ELSE title_index
          /\ description_index' =
                 IF field = "description" THEN index ELSE description_index
          /\ call' = [fn |-> "build_inverted_index", field |-> field]
          /\ ret' = [exc |-> "none", value |-> index]
    /\ pc' = IF field = "title" THEN "build_description" ELSE "build_reviews"
    /\ UNCHANGED <<documents, reviews_index, brand_index, origin_index,
                   synonyms, documents_metadata>>
    /\ UNCHANGED crawl_vars

BuildReviewsIndex ==
    /\ pc = "build_reviews"
    /\ LET r == build_reviews_index(documents)
       IN /\ reviews_index' = IF r.exc = "none" THEN r.value ELSE reviews_index
          /\ pc' = IF r.exc = "none" THEN "build_features" ELSE "crashed"
          /\ ret' = r
    /\ call' = [fn |-> "build_reviews_index"]
    /\ UNCHANGED <<documents, title_index, description_index, brand_index,
                   origin_index, synonyms, documents_metadata>>
    /\ UNCHANGED crawl_vars

BuildFeatureIndexes ==
    /\ pc = "build_features"
    /\ LET all == build_feature_indexes(documents)
           Saved(name, old) ==
               IF \E f \in DOMAIN all : FeatureFile(f) = name
               THEN all[CHOOSE f \in DOMAIN all : FeatureFile(f) = name]
               ELSE old
       IN /\ brand_index' = Saved("brand", brand_index)
          /\ origin_index' = Saved("origin", origin_index)
          /\ ret' = [exc |-> "none", value |-> all]
    /\ call' = [fn |-> "build_feature_indexes"]
    /\ pc' = "built"
    /\ UNCHANGED <<documents, title_index, description_index, reviews_index,
                   synonyms, documents_metadata>>
    /\ UNCHANGED crawl_vars

NextBuild ==
    \/ BuildInvertedIndex("title")
    \/ BuildInvertedIndex("description")
    \/ BuildReviewsIndex
    \/ BuildFeatureIndexes

(***************************************************************************)
(* Document collections                                                    *)
(***************************************************************************)
Texts == SeqsUpTo(DocWords, MaxTextLen)

\* a review with a rating, or one without the key
Reviews == {[rating |-> r] : r \in Ratings} \cup {[text |-> "ok"]}

BrandValues == {<<"Red,">>, <<"hat", "hat">>}
OriginValues == {<<"the", "hat">>}

\* feature mappings: any subset of the two features wired into the search
FeatureDicts ==
    {EmptyDict}
    \cup {[f \in {"brand"} |-> b] : b \in BrandValues}
    \cup {[f \in {"made in"} |-> o] : o \in OriginValues}
    \cup {[f \in {"brand", "made in"} |-> IF f = "brand" THEN b ELSE o] :
              b \in BrandValues, o \in OriginValues}

\* documents with text fields only; the description may be missing
TextDocs(u) ==
    {[url |-> u]}
    \cup {[url |-> u, title |-> t] : t \in Texts}
    \cup {[url |-> u, title |-> t, description |-> <<"hat", "Red,", "hat">>] :
              t \in SeqsUpTo(DocWords, 1)}

\* documents with reviews; the review list may be missing
ReviewDocs(u) ==
    {[url |-> u]}
    \cup {[url |-> u, product_reviews |-> rs] : rs \in SeqsUpTo(Reviews, MaxReviews)}

\* documents with features; the feature mapping may be missing
FeatureDocs(u) ==
    {[url |-> u]} \cup {[url |-> u, product_features |-> fs] : fs \in FeatureDicts}

RECURSIVE CorporaOfLen(_, _)
CorporaOfLen(F, n) ==
    IF n = 0 THEN {<<>>}
    ELSE {Append(c, d) : c \in CorporaOfLen(F, n - 1), d \in F[UrlList[n]]}

\* collections of at most Len(UrlList) documents with distinct URLs
Corpora(F) == UNION {CorporaOfLen(F, n) : n \in 0..Len(UrlList)}

BuildCorpora ==
    Corpora([u \in Range(UrlList) |-> TextDocs(u)])
    \cup Corpora([u \in Range(UrlList) |-> ReviewDocs(u)])
    \cup Corpora([u \in Range(UrlList) |-> FeatureDocs(u)])

InitBuild ==
    /\ documents \in BuildCorpora
    /\ pc = "build_title"
    /\ title_index = EmptyDict
    /\ description_index = EmptyDict
    /\ reviews_index = EmptyDict
    /\ brand_index = EmptyDict
    /\ origin_index = EmptyDict
    /\ synonyms = EmptyDict
    /\ documents_metadata = EmptyDict
    /\ call = [fn |-> "main"]
    /\ ret = [exc |-> "none"]
    /\ CrawlerIdle

SpecBuild == InitBuild /\ [][NextBuild]_vars

(***************************************************************************)
(* Properties of the index builder                                         *)
(***************************************************************************)
\* number of occurrences of t in a token sequence
Occurrences(toks, t) == Cardinality({j \in DOMAIN toks : toks[j] = t})

StrictlyIncreasing(s) == \A i, j \in DOMAIN s : i < j => s[i] < s[j]

\* C3: in the index build_inverted_index returns, every stored position list
\* is a strictly increasing list of 0-based positions of the token in the
\* document's tokenized field, as many as the token occurs there and at
\* least one; a document without the field has no posting.
C3_PositionInvariant ==
    call.fn = "build_inverted_index" =>
        LET index == ret.value
            field == call.field
        IN /\ \A t \in DOMAIN index : \A u \in DOMAIN index[t] :
                  \E i \in DOMAIN documents :
                      /\ documents[i]["url"] = u
                      /\ LET toks == tokenize_TP2(Get(documents[i], field, <<>>))
                             pos == index[t][u]
                         IN /\ StrictlyIncreasing(pos)
                            /\ \A k \in DOMAIN pos :
                                   /\ pos[k] \in 0..(Len(toks) - 1)
                                   /\ toks[pos[k] + 1] = t
                            /\ Len(pos) = Occurrences(toks, t)
                            /\ Len(pos) >= 1
           /\ \A i \in DOMAIN documents :
                  field \notin DOMAIN documents[i] =>
                      \A t \in DOMAIN index : documents[i]["url"] \notin DOMAIN index[t]

\* C3 witness: a built index holds a token at two positions that are not
\* adjacent, and another document of the collection lacks the field.
C3_Witness ==
    /\ call.fn = "build_inverted_index"
    /\ \E t \in DOMAIN ret.value : \E u \in DOMAIN ret.value[t] :
           /\ Len(ret.value[t][u]) = 2
           /\ ret.value[t][u][2] > ret.value[t][u][1] + 1
    /\ \E i \in DOMAIN documents : call.field \notin DOMAIN documents[i]

\* the positions of a review list whose review carries a rating
Rated(reviews) == {j \in DOMAIN reviews : "rating" \in DOMAIN reviews[j]}

\* the sum of the ratings present
RatingSum(reviews) ==
    LET S[i \in 0..Len(reviews)] ==
            IF i = 0 THEN 0
            ELSE S[i - 1] + (IF i \in Rated(reviews) THEN reviews[i]["rating"] ELSE 0)
    IN S[Len(reviews)]

LastRated(reviews) == CHOOSE j \in Rated(reviews) : \A k \in Rated(reviews) : k <= j

C5_NoRaiseOnMissingRating ==
    call.fn = "build_reviews_index" =>
        /\ ret.exc = "none"
        /\ DOMAIN ret.value = {documents[i]["url"] : i \in DOMAIN documents}

(***************************************************************************)
(* TP3: text preprocessing and query expansion                             *)
(***************************************************************************)
\* most raw words of a query, and most tokens of a token list passed directly
MaxQueryLen == 2

\* raw words of queries; "cap" occurs in no document
QueryWords == {"Hat!", "red", "the", "cap"}

\* tokens a caller may pass to the filters
QueryTokens == {"hat", "red", "cap"}

\* nltk's English stopword list, restricted to the vocabulary
STOPWORDS == {"the", "a", "of"}

tokenize(text) == SplitClean(text)

normalize(tokens) ==
    LET Keep(t) == t \notin STOPWORDS
    IN SelectSeq(tokens, Keep)

\* the lists a set may be turned into by list(): its elements once, any order
ListsOf(S) == {l \in [1..Cardinality(S) -> S] : Range(l) = S}

\* variant: a token the table lists is replaced by its synonyms
Expanded_replace(tokens, syn) ==
    (Range(tokens) \ DOMAIN syn)
    \cup UNION {Range(syn[t]) : t \in Range(tokens) \cap DOMAIN syn}

\* expanded after the loop: the tokens and the synonyms listed for each
Expanded(tokens, syn) ==
    Range(tokens) \cup UNION {Range(syn[t]) : t \in Range(tokens) \cap DOMAIN syn}

\* the lists expand_with_synonyms may return
expand_with_synonyms(tokens) == ListsOf(Expanded(tokens, synonyms))

\* the lists process_query may return
process_query(query) == expand_with_synonyms(normalize(tokenize(query)))

(***************************************************************************)
(* TP3: document filtering                                                 *)
(***************************************************************************)
\* index[t].keys(): a dict has keys, a list raises AttributeError
Keys(v) == IF IsList(v) THEN [exc |-> "AttributeError"]
           ELSE [exc |-> "none", value |-> DOMAIN v]

RECURSIVE AnyLoop(_, _, _)
AnyLoop(docs, tokens, index) ==
    IF tokens = <<>> THEN [exc |-> "none", value |-> docs]
    ELSE IF Head(tokens) \in DOMAIN index
         THEN LET k == Keys(index[Head(tokens)])
              IN IF k.exc # "none" THEN [exc |-> k.exc]
                 ELSE AnyLoop(docs \cup k.value, Tail(tokens), index)
         ELSE AnyLoop(docs, Tail(tokens), index)

filter_any_token(tokens, index) == AnyLoop({}, tokens, index)

\* doc_sets after the loop, or the exception
RECURSIVE DocSets(_, _, _)
DocSets(doc_sets, tokens, index) ==
    IF tokens = <<>> THEN [exc |-> "none", value |-> doc_sets]
    ELSE IF Head(tokens) \in DOMAIN index
         THEN LET k == Keys(index[Head(tokens)])
              IN IF k.exc # "none" THEN [exc |-> k.exc]
                 ELSE DocSets(Append(doc_sets, k.value), Tail(tokens), index)
         ELSE DocSets(doc_sets, Tail(tokens), index)

\* set.intersection(*doc_sets) for a non-empty list of sets
RECURSIVE Intersection(_)
Intersection(doc_sets) ==
    IF Len(doc_sets) = 1 THEN doc_sets[1]
    ELSE doc_sets[1] \cap Intersection(Tail(doc_sets))

\* variant: the intersection of no set taken to be every indexed document
filter_all_tokens_universe(tokens, index) ==
    LET d == DocSets(<<>>, tokens, index)
    IN IF d.exc # "none" THEN [exc |-> d.exc]
       ELSE IF d.value = <<>>
            THEN [exc |-> "none", value |-> UNION {DOMAIN index[t] : t \in DOMAIN index}]
            ELSE [exc |-> "none", value |-> Intersection(d.value)]

filter_all_tokens(tokens, index) ==
    LET d == DocSets(<<>>, tokens, index)
    IN IF d.exc # "none" THEN [exc |-> d.exc]
       ELSE IF d.value = <<>> THEN [exc |-> "none", value |-> {}]
            ELSE [exc |-> "none", value |-> Intersection(d.value)]

\* the loop over [title_index, description_index, brand_index, origin_index]
RECURSIVE CandidatesLoop(_, _, _)
CandidatesLoop(candidates, tokens, indexes) ==
    IF indexes = <<>> THEN [exc |-> "none", value |-> candidates]
    ELSE LET r == filter_any_token(tokens, Head(indexes))
         IN IF r.exc # "none" THEN [exc |-> r.exc]
            ELSE CandidatesLoop(candidates \cup r.value, tokens, Tail(indexes))

filter_documents(tokens) ==
    LET c == CandidatesLoop({}, tokens,
                 <<title_index, description_index, brand_index, origin_index>>)
        strict == filter_all_tokens(tokens, title_index)
    IN IF c.exc # "none" THEN [exc |-> c.exc]
       ELSE IF strict.exc # "none" THEN [exc |-> strict.exc]
       ELSE [exc |-> "none", value |-> c.value \cup strict.value]

(***************************************************************************)
(* TP3: BM25 scoring                                                       *)
(***************************************************************************)
RECURSIVE SumValues(_)
SumValues(d) ==
    IF DOMAIN d = {} THEN 0
    ELSE LET k == CHOOSE x \in DOMAIN d : TRUE
         IN d[k] + SumValues([x \in DOMAIN d \ {k} |-> d[x]])

\* a / b of two numbers: ZeroDivisionError when b is zero
Divide(a, b) == IF b = 0 THEN [exc |-> "ZeroDivisionError"]
                ELSE [exc |-> "none", value |-> Rat(a, b)]

\* With k1 = 1.5 and b = 0.75 the score is ln(A) * B for the rationals
\*   A = 1 + (N - df + 0.5)/(df + 0.5) = (2N + 2)/(2df + 1)
\*   B = 2.5 tf / (tf + 0.375 + 1.125 doc_len/avgdl)
\*     = 20 tf n / (8 tf n + 3 n + 9 doc_len d)      for avgdl = n/d
\* and it is kept as the pair [log_of |-> A, times |-> B]. doc_len / avgdl
\* raises ZeroDivisionError when avgdl is zero.
bm25_score(tf, df, doc_len, avgdl, N) ==
    IF avgdl.num = 0 THEN [exc |-> "ZeroDivisionError"]
    ELSE [exc |-> "none",
          value |-> [log_of |-> Rat(2 * N + 2, 2 * df + 1),
                     times |-> Rat(20 * tf * avgdl.num,
                                   8 * tf * avgdl.num + 3 * avgdl.num
                                       + 9 * doc_len * avgdl.den)]]

\* the (token, url) pairs the two loops visit
Postings(tokens, index) ==
    {<<i, u>> \in (DOMAIN tokens) \X UNION {DOMAIN index[t] : t \in DOMAIN index} :
        tokens[i] \in DOMAIN index /\ u \in DOMAIN index[tokens[i]]}

\* scores[url]: the terms added for url, in token order
bm25(tokens, index, doc_lengths) ==
    LET N == Cardinality(DOMAIN doc_lengths)
        avg == Divide(SumValues(doc_lengths), N)
        Term(i, u) == bm25_score(Len(index[tokens[i]][u]),
                                 Cardinality(DOMAIN index[tokens[i]]),
                                 Get(doc_lengths, u, 1), avg.value, N)
        TermsOf(u) ==
            LET F[i \in 0..Len(tokens)] ==
                    IF i = 0 THEN <<>>
                    ELSE IF <<i, u>> \in Postings(tokens, index)
                         THEN Append(F[i - 1], Term(i, u).value)
                         ELSE F[i - 1]
            IN F[Len(tokens)]
    IN IF avg.exc # "none" THEN [exc |-> avg.exc]
       ELSE IF \E p \in Postings(tokens, index) : Term(p[1], p[2]).exc # "none"
            THEN [exc |-> "ZeroDivisionError"]
            ELSE [exc |-> "none",
                  value |-> [u \in {p[2] : p \in Postings(tokens, index)} |-> TermsOf(u)]]

(***************************************************************************)
(* TP3: metadata and the composite score                                   *)
(***************************************************************************)
exact_match_score(tokens, title_tokens) ==
    IF Range(tokens) \subseteq Range(title_tokens) THEN 1 ELSE 0

\* the metadata record of one product; p["url"] and p["title"] are required
Metadata(p) ==
    [title |-> p["title"],
     description |-> Get(p, "description", <<>>),
     title_tokens |-> normalize(tokenize(p["title"])),
     review_count |-> Len(Get(p, "reviews", <<>>)),
     doc_length |-> Len(normalize(tokenize(Get(p, "description", <<>>))))]

RECURSIVE MetadataLoop(_, _)
MetadataLoop(metadata, products) ==
    IF products = <<>> THEN metadata
    ELSE MetadataLoop(Put(metadata, Head(products)["url"], Metadata(Head(products))),
                      Tail(products))

build_documents_metadata(products) == MetadataLoop(EmptyDict, products)

\* what one token adds to the score, in tenths
TokenScore(doc, t) ==
    (IF t \in DOMAIN title_index /\ doc \in DOMAIN title_index[t]
     THEN 30 * Len(title_index[t][doc]) ELSE 0)
    + (IF t \in DOMAIN description_index /\ doc \in DOMAIN description_index[t]
       THEN 10 * Len(description_index[t][doc]) ELSE 0)
    + (IF t \in DOMAIN reviews_index /\ doc \in DOMAIN reviews_index[t]
       THEN 5 * Len(reviews_index[t][doc]) ELSE 0)

\* the score, in tenths
compute_score(doc, tokens, stats) ==
    SumSeq([i \in DOMAIN tokens |-> TokenScore(doc, tokens[i])])
    + 50 * exact_match_score(tokens, stats.title_tokens)
    + 1 * stats.review_count

(***************************************************************************)
(* TP3: the search pipeline                                                *)
(***************************************************************************)
\* results.sort(key=score, reverse=True): stable, so an entry goes after
\* every entry placed before it whose score is not smaller
InsertDesc(sorted, x) ==
    LET n == Cardinality({i \in DOMAIN sorted : sorted[i].score >= x.score})
    IN SubSeq(sorted, 1, n) \o <<x>> \o SubSeq(sorted, n + 1, Len(sorted))

\* variant: reverse=True left out, ascending order
InsertAsc(sorted, x) ==
    LET n == Cardinality({i \in DOMAIN sorted : sorted[i].score <= x.score})
    IN SubSeq(sorted, 1, n) \o <<x>> \o SubSeq(sorted, n + 1, Len(sorted))

SortAscending(results) ==
    LET F[i \in 0..Len(results)] ==
            IF i = 0 THEN <<>> ELSE InsertAsc(F[i - 1], results[i])
    IN F[Len(results)]

SortDescending(results) ==
    LET F[i \in 0..Len(results)] ==
            IF i = 0 THEN <<>> ELSE InsertDesc(F[i - 1], results[i])
    IN F[Len(results)]

\* the process-wide dicts of browser.py
Shared ==
    [title_index |-> title_index, description_index |-> description_index,
     brand_index |-> brand_index, origin_index |-> origin_index,
     reviews_index |-> reviews_index, synonyms |-> synonyms,
     documents_metadata |-> documents_metadata]

\* variant: the indexes loaded as defaultdict(dict) and read as index[t]
\* without the membership test, which stores an empty posting for every
\* query token the title index lacks
SharedAfterSearch_defaultdict(tokens) ==
    [Shared EXCEPT !.title_index =
        [t \in DOMAIN title_index \cup Range(tokens) |-> Get(title_index, t, EmptyDict)]]

\* the process-wide dicts when search returns or raises: search and the
\* functions it calls assign to no global and call no mutating method on
\* one (expanded, docs, doc_sets, candidates and results are fresh objects)
SharedAfterSearch(tokens) == Shared

\* the result entries in the iteration order of the candidate set
Entries(order, tokens) ==
    [i \in DOMAIN order |->
        LET stats == documents_metadata[order[i]]
        IN [title |-> stats.title, url |-> order[i],
            description |-> stats.description,
            score |-> compute_score(order[i], tokens, stats)]]

\* the outcomes of search(query): what it saves, or the exception it raises.
\* The token list and the iteration order of the candidate set are any of
\* those list() and the set iterator may produce.
search(query) ==
    {[exc |-> f.exc] :
        f \in {g \in {filter_documents(tokens) : tokens \in process_query(query)} :
                  g.exc # "none"}}
    \cup {[exc |-> "KeyError"] :
        f \in {g \in {filter_documents(tokens) : tokens \in process_query(query)} :
                  g.exc = "none" /\ ~(g.value \subseteq DOMAIN documents_metadata)}}
    \cup UNION {
        {[exc |-> "none",
          value |-> [query |-> query,
                     total_documents |-> Cardinality(DOMAIN documents_metadata),
                     filtered_documents |-> Cardinality(filter_documents(tokens).value),
                     results |-> SortDescending(Entries(order, tokens))]] :
            order \in ListsOf(filter_documents(tokens).value)} :
        tokens \in {t \in process_query(query) :
                      /\ filter_documents(t).exc = "none"
                      /\ filter_documents(t).value \subseteq DOMAIN documents_metadata}}

Queries == SeqsUpTo(QueryWords, MaxQueryLen)

TokenLists == SeqsUpTo(QueryTokens, MaxQueryLen)

IndexNamed(name) == IF name = "title" THEN title_index ELSE description_index

Search ==
    /\ pc = "serving"
    /\ \E query \in Queries :
           /\ \E r \in search(query) : ret' = r
           /\ call' = [fn |-> "search", query |-> query]
           /\ \E tokens \in process_query(query) :
                  LET after == SharedAfterSearch(tokens)
                  IN /\ title_index' = after.title_index
                     /\ description_index' = after.description_index
                     /\ brand_index' = after.brand_index
                     /\ origin_index' = after.origin_index
                     /\ reviews_index' = after.reviews_index
                     /\ synonyms' = after.synonyms
                     /\ documents_metadata' = after.documents_metadata
    /\ pc' = "returned"
    /\ UNCHANGED documents
    /\ UNCHANGED crawl_vars

ProcessQuery ==
    /\ pc = "serving"
    /\ \E query \in Queries :
           /\ \E tokens \in process_query(query) :
                  ret' = [exc |-> "none", value |-> tokens]
           /\ call' = [fn |-> "process_query", query |-> query]
    /\ pc' = "returned"
    /\ UNCHANGED <<documents, title_index, description_index, reviews_index,
                   brand_index, origin_index, synonyms, documents_metadata>>
    /\ UNCHANGED crawl_vars

FilterAllTokens ==
    /\ pc = "serving"
    /\ \E tokens \in TokenLists, name \in {"title", "description"} :
           /\ ret' = filter_all_tokens(tokens, IndexNamed(name))
           /\ call' = [fn |-> "filter_all_tokens", tokens |-> tokens, index |-> name]
    /\ pc' = "returned"
    /\ UNCHANGED <<documents, title_index, description_index, reviews_index,
                   brand_index, origin_index, synonyms, documents_metadata>>
    /\ UNCHANGED crawl_vars

FilterDocuments ==
    /\ pc = "serving"
    /\ \E tokens \in TokenLists :
           /\ ret' = filter_documents(tokens)
           /\ call' = [fn |-> "filter_documents", tokens |-> tokens]
    /\ pc' = "returned"
    /\ UNCHANGED <<documents, title_index, description_index, reviews_index,
                   brand_index, origin_index, synonyms, documents_metadata>>
    /\ UNCHANGED crawl_vars

\* bm25 over a text index, with the description lengths of the metadata
Bm25 ==
    /\ pc = "serving"
    /\ \E tokens \in TokenLists, name \in {"title", "description"} :
           /\ ret' = bm25(tokens, IndexNamed(name),
                          [u \in DOMAIN documents_metadata |->
                              documents_metadata[u].doc_length])
           /\ call' = [fn |-> "bm25", tokens |-> tokens, index |-> name]
    /\ pc' = "returned"
    /\ UNCHANGED <<documents, title_index, description_index, reviews_index,
                   brand_index, origin_index, synonyms, documents_metadata>>
    /\ UNCHANGED crawl_vars

\* the call is over: its outcome is dropped and the next call may be made
Return ==
    /\ pc = "returned"
    /\ pc' = "serving"
    /\ call' = [fn |-> "import"]
    /\ ret' = [exc |-> "none"]
    /\ UNCHANGED <<documents, title_index, description_index, reviews_index,
                   brand_index, origin_index, synonyms, documents_metadata>>
    /\ UNCHANGED crawl_vars

Next ==
    \/ Search
    \/ ProcessQuery
    \/ FilterAllTokens
    \/ FilterDocuments
    \/ Bm25
    \/ Return

(***************************************************************************)
(* TP3: the state after import                                             *)
(***************************************************************************)
SearchTitles ==
    {<<>>, <<"Red,">>, <<"hat">>, <<"Red,", "hat">>, <<"hat", "hat">>, <<"the", "hat">>}

SearchDescriptions == {<<"hat">>, <<"Red,", "hat", "hat">>}

ShortTitles == {<<"hat">>, <<"Red,">>}

RatedReviews == {<<[rating |-> 5]>>, <<[rating |-> 4], [rating |-> 5]>>}

\* products carry a title; the other fields may be missing
SearchTextDocs(u) ==
    {[url |-> u, title |-> t] : t \in SearchTitles}
    \cup {[url |-> u, title |-> t, description |-> d] :
              t \in SearchTitles, d \in SearchDescriptions}

SearchFeatureDocs(u) ==
    {[url |-> u, title |-> t, product_features |-> fs] :
        t \in ShortTitles, fs \in FeatureDicts \ {EmptyDict}}

\* reviews under the key the index builder reads, and also under "reviews"
SearchReviewDocs(u) ==
    {[url |-> u, title |-> t, product_reviews |-> rs] :
        t \in ShortTitles, rs \in RatedReviews}
    \cup {[url |-> u, title |-> t, product_reviews |-> rs, reviews |-> rs] :
              t \in ShortTitles, rs \in RatedReviews}

SearchCorpora ==
    Corpora([u \in Range(UrlList) |-> SearchTextDocs(u)])
    \cup Corpora([u \in Range(UrlList) |-> SearchFeatureDocs(u)])
    \cup Corpora([u \in Range(UrlList) |-> SearchReviewDocs(u)])

\* origin_synonyms.json: "red" lists "cap", "cap" lists "hat"
SynonymTable == [t \in {"red", "cap"} |-> IF t = "red" THEN <<"cap">> ELSE <<"hat">>]

\* an index file the builder wrote for the feature, else an empty one
LoadFeatureIndex(docs, name) ==
    LET all == build_feature_indexes(docs)
    IN IF \E f \in DOMAIN all : FeatureFile(f) = name
       THEN all[CHOOSE f \in DOMAIN all : FeatureFile(f) = name]
       ELSE EmptyDict

\* the globals of browser.py after import, the index files being those the
\* index builder wrote for the same products
Init ==
    /\ documents \in SearchCorpora
    /\ pc = "serving"
    /\ title_index = build_inverted_index(documents, "title")
    /\ description_index = build_inverted_index(documents, "description")
    /\ reviews_index = build_reviews_index(documents).value
    /\ brand_index = LoadFeatureIndex(documents, "brand")
    /\ origin_index = LoadFeatureIndex(documents, "origin")
    /\ synonyms = SynonymTable
    /\ documents_metadata = build_documents_metadata(documents)
    /\ call = [fn |-> "import"]
    /\ ret = [exc |-> "none"]
    /\ CrawlerIdle

Spec == Init /\ [][Next]_vars

(***************************************************************************)
(* Properties of the search script                                         *)
(***************************************************************************)
\* the URLs a text index lists under a token
UrlsOf(index, t) == DOMAIN index[t]

\* the URLs a feature index (token -> [urls]) lists under a token
FeatureUrlsOf(index, t) == Range(index[t].items)

\* the documents with at least one of the tokens in a text index
AnyHits(tokens, index) ==
    UNION {UrlsOf(index, t) : t \in Range(tokens) \cap DOMAIN index}

\* the documents with at least one of the tokens in a feature index
FeatureHits(tokens, index) ==
    UNION {FeatureUrlsOf(index, t) : t \in Range(tokens) \cap DOMAIN index}

\* the documents listed under every token of the list that the index holds;
\* none when the index holds none of them
AllHits(tokens, index) ==
    LET present == Range(tokens) \cap DOMAIN index
    IN IF present = {} THEN {}
       ELSE {u \in UNION {UrlsOf(index, t) : t \in present} :
                \A t \in present : u \in UrlsOf(index, t)}

\* C1: filter_documents(tokens) returns, without raising, the union of the
\* any-token hits in the title, description, brand and origin indexes and of
\* the all-token hits in the title index.
C1_FilterDocumentsUnion ==
    call.fn = "filter_documents" =>
        /\ ret.exc = "none"
        /\ ret.value = AnyHits(call.tokens, title_index)
                           \cup AnyHits(call.tokens, description_index)
                           \cup FeatureHits(call.tokens, brand_index)
                           \cup FeatureHits(call.tokens, origin_index)
                           \cup AllHits(call.tokens, title_index)

C6_Bm25Guarded ==
    call.fn = "bm25" => ret.exc = "none"

\* the normalized tokens of a raw query
NormalizedTokens(query) == {Clean(w) : w \in Range(query)} \ ({""} \cup STOPWORDS)

\* the product of a URL
ProductOf(u) == documents[CHOOSE i \in DOMAIN documents : documents[i]["url"] = u]

\* the number of occurrences, in a product's tokenized field, of the tokens
\* of a set
FieldFrequency(u, field, tokens) ==
    LET toks == tokenize_TP2(Get(ProductOf(u), field, <<>>))
    IN Cardinality({j \in DOMAIN toks : toks[j] \in tokens})

\* C7: the score of every result entry is, in tenths, 30 x the title
\* frequency + 10 x the description frequency of the query tokens + 50 when
\* every query token is a normalized title token + 1 per review of the
\* product (its product_reviews).
C7_ScoreFormula ==
    (call.fn = "search" /\ ret.exc = "none") =>
        LET tokens == Range(CHOOSE l \in process_query(call.query) : TRUE)
            results == ret.value.results
        IN \A i \in DOMAIN results :
               LET u == results[i].url
                   exact == IF tokens \subseteq
                                 Range(normalize(tokenize(ProductOf(u)["title"])))
                            THEN 1 ELSE 0
               IN results[i].score =
                      30 * FieldFrequency(u, "title", tokens)
                      + 10 * FieldFrequency(u, "description", tokens)
                      + 50 * exact
                      + 1 * Len(Get(ProductOf(u), "product_reviews", <<>>))

\* C8: the output of search has one entry per candidate of filter_documents
\* and no other, in order of non-increasing score; filtered_documents is the
\* number of entries and total_documents the number of documents in the
\* metadata.
C8_SearchOutput ==
    (call.fn = "search" /\ ret.exc = "none") =>
        LET out == ret.value
            results == out.results
            candidates ==
                filter_documents(CHOOSE l \in process_query(call.query) : TRUE).value
        IN /\ {results[i].url : i \in DOMAIN results} = candidates
           /\ \A i, j \in DOMAIN results : i # j => results[i].url # results[j].url
           /\ \A i, j \in DOMAIN results : i < j => results[i].score >= results[j].score
           /\ out.filtered_documents = Len(results)
           /\ out.total_documents = Cardinality(DOMAIN documents_metadata)

\* C8 witness: a search returned two entries of different scores.
C8_Witness ==
    /\ call.fn = "search"
    /\ ret.exc = "none"
    /\ Len(ret.value.results) = 2
    /\ ret.value.results[1].score > ret.value.results[2].score
    /\ ret.value.total_documents = 2

\* C9: process_query returns, each once, the normalized tokens of the query
\* and the synonyms the table lists for them, and nothing else; for a query
\* without normalized tokens, filter_documents returns no candidate and the
\* search output has filtered_documents = 0.
C9_ProcessQuery ==
    /\ call.fn = "process_query" =>
           LET norm == NormalizedTokens(call.query)
           IN /\ ret.exc = "none"
              /\ \A i, j \in DOMAIN ret.value : i # j => ret.value[i] # ret.value[j]
              /\ norm \subseteq Range(ret.value)
              /\ Range(ret.value) =
                     norm \cup UNION {Range(synonyms[t]) : t \in norm \cap DOMAIN synonyms}
    /\ (call.fn = "filter_documents" /\ call.tokens = <<>>) =>
           ret = [exc |-> "none", value |-> {}]
    /\ (call.fn = "search" /\ NormalizedTokens(call.query) = {}) =>
           /\ ret.exc = "none"
           /\ ret.value.filtered_documents = 0
           /\ ret.value.results = <<>>

\* C9 witness: process_query of "red red" returned "red" and its synonym
\* "cap", each once, and not the synonym "hat" of "cap".
C9_Witness ==
    /\ call.fn = "process_query"
    /\ call.query = <<"red", "red">>
    /\ Len(ret.value) = 2
    /\ Range(ret.value) = {"red", "cap"}

C12_DeterministicOrder ==
    (call.fn = "search" /\ ret.exc = "none") =>
        \A r \in search(call.query) :
            r.exc = "none" => r.value.results = ret.value.results

(***************************************************************************)
\* the pages of the crawled domain, in string order, and a foreign URL
SiteUrls == <<"site/about", "site/product/1", "site/products">>
ForeignUrl == "other/x"
StartUrl == "site/products"

\* urlparse(url).netloc
Netloc(url) == IF url = ForeignUrl THEN "other" ELSE "site"

is_internal_link(link, base_url) == Netloc(link) = Netloc(base_url)

\* 0 if "product" in url.lower() else 1
get_priority(url) == IF url \in {"site/product/1", "site/products"} THEN 0 ELSE 1

\* string order of two URLs of the domain
UrlRank(url) == CHOOSE i \in DOMAIN SiteUrls : SiteUrls[i] = url

\* (priority, url) tuple order of the heap entries
HeapLess(u, v) ==
    \/ get_priority(u) < get_priority(v)
    \/ get_priority(u) = get_priority(v) /\ UrlRank(u) <= UrlRank(v)

QueueNotEmpty == \E u \in DOMAIN queue : queue[u] > 0

\* the URL heapq.heappop returns
HeapTop == CHOOSE u \in DOMAIN queue :
               queue[u] > 0 /\ \A v \in DOMAIN queue : queue[v] > 0 => HeapLess(u, v)

heappop(q, u) == [q EXCEPT ![u] = @ - 1]

heappush(q, u) == Put(q, u, Get(q, u, 0) + 1)

\* what get_html and parse_html may give for a page: its title, its first
\* paragraph and the targets of its links (urljoin leaves absolute targets
\* as they are)
Pages ==
    {[title |-> "", first_paragraph |-> "", hrefs |-> <<>>],
     [title |-> "Products", first_paragraph |-> "All",
      hrefs |-> <<"site/product/1", "site/about">>],
     [title |-> "Hat", first_paragraph |-> "Red",
      hrefs |-> <<"site/products", "other/x", "site/product/1">>],
     [title |-> "About", first_paragraph |-> "",
      hrefs |-> <<"site/about", "site/about">>]}

\* links after the loop over the page's anchors
InternalLinks(hrefs) ==
    LET Internal(l) == is_internal_link(l, StartUrl)
    IN SelectSeq(hrefs, Internal)

\* queue after the loop over the page's anchors: every internal link that is
\* not visited is pushed, once per anchor
RECURSIVE PushLinks(_, _)
PushLinks(q, hrefs) ==
    IF hrefs = <<>> THEN q
    ELSE PushLinks(IF is_internal_link(Head(hrefs), StartUrl) /\ Head(hrefs) \notin visited
                   THEN heappush(q, Head(hrefs)) ELSE q,
                   Tail(hrefs))

\* the loop condition of crawl_website
Crawling == pc = "crawl" /\ QueueNotEmpty /\ Cardinality(visited) < max_pages

\* what a get_html call records: that it is the first call, or the seconds
\* slept since the call before it
Request == IF gap.calls = "none" THEN [calls |-> "one"]
           ELSE [calls |-> "several", seconds |-> waited]

\* seconds slept after a fetch that failed: `continue` skips time.sleep
WaitedAfterFailure == 0

\* one iteration of the loop: the URL is visited or disallowed, no request
CrawlSkip ==
    /\ Crawling
    /\ HeapTop \in visited \/ HeapTop \in robot_parser
    /\ queue' = heappop(queue, HeapTop)
    /\ UNCHANGED <<pc, max_pages, delay, robot_parser, visited, crawl_results,
                   waited, gap>>
    /\ UNCHANGED <<documents, title_index, description_index, reviews_index,
                   brand_index, origin_index, synonyms, documents_metadata, call, ret>>

\* one iteration of the loop: get_html returns None
CrawlFetchFailed ==
    /\ Crawling
    /\ HeapTop \notin visited /\ HeapTop \notin robot_parser
    /\ queue' = heappop(queue, HeapTop)
    /\ gap' = Request
    /\ waited' = WaitedAfterFailure
    /\ UNCHANGED <<pc, max_pages, delay, robot_parser, visited, crawl_results>>
    /\ UNCHANGED <<documents, title_index, description_index, reviews_index,
                   brand_index, origin_index, synonyms, documents_metadata, call, ret>>

\* one iteration of the loop: the page is fetched, parsed, recorded, and the
\* crawler sleeps
CrawlFetchPage ==
    /\ Crawling
    /\ HeapTop \notin visited /\ HeapTop \notin robot_parser
    /\ \E page \in Pages :
           /\ queue' = PushLinks(heappop(queue, HeapTop), page.hrefs)
           /\ crawl_results' =
                  Append(crawl_results,
                         [url |-> HeapTop, title |-> page.title,
                          description |-> page.first_paragraph,
                          links |-> InternalLinks(page.hrefs)])
    /\ visited' = visited \cup {HeapTop}
    /\ gap' = Request
    /\ waited' = delay
    /\ UNCHANGED <<pc, max_pages, delay, robot_parser>>
    /\ UNCHANGED <<documents, title_index, description_index, reviews_index,
                   brand_index, origin_index, synonyms, documents_metadata, call, ret>>

\* the loop ends and crawl_website returns results
CrawlReturn ==
    /\ pc = "crawl"
    /\ ~Crawling
    /\ pc' = "crawled"
    /\ UNCHANGED crawl_vars
    /\ UNCHANGED <<documents, title_index, description_index, reviews_index,
                   brand_index, origin_index, synonyms, documents_metadata, call, ret>>

NextCrawl ==
    \/ CrawlSkip
    \/ CrawlFetchFailed
    \/ CrawlFetchPage
    \/ CrawlReturn

\* crawl_website(start_url, max_pages, delay) before the loop: the start URL
\* is on the heap; robots.txt disallows some pages or none
InitCrawl ==
    /\ pc = "crawl"
    /\ max_pages \in {1, 2, 50}
    /\ delay \in {1, 2}
    /\ robot_parser \in {{}, {"site/about"}}
    /\ queue = heappush([u \in {} |-> 0], StartUrl)
    /\ visited = {}
    /\ crawl_results = <<>>
    /\ waited = 0
    /\ gap = [calls |-> "none"]
    /\ documents = <<>>
    /\ title_index = EmptyDict
    /\ description_index = EmptyDict
    /\ reviews_index = EmptyDict
    /\ brand_index = EmptyDict
    /\ origin_index = EmptyDict
    /\ synonyms = EmptyDict
    /\ documents_metadata = EmptyDict
    /\ call = [fn |-> "crawl_website"]
    /\ ret = [exc |-> "none"]

SpecCrawl == InitCrawl /\ [][NextCrawl]_vars

(***************************************************************************)
(* Properties of the crawler                                               *)
(***************************************************************************)
\* C11: whenever get_html is called after an earlier get_html call, the
\* crawler has slept at least `delay` seconds since that earlier call,
\* whether it returned a page or failed.
C11_RateLimited ==
    gap.calls = "several" => gap.seconds >= delay

====
